---- MODULE Spec2Model ----
(***************************************************************************)
(* The .ppc container of src/src/ppc: framing (container.py), key          *)
(* derivation and AEAD (crypto.py) and the create / restore commands       *)
(* (cli.py), as a state machine over a small file system.                  *)
(*                                                                         *)
(* A byte string is a sequence of cells.  A cell is a record:              *)
(*   [t |-> "b", v |-> 0..255]        one byte with a known value          *)
(*   [t |-> "j", k |-> ..., val |-> ...]  one lexical chunk of the header  *)
(*                                    JSON text (a brace or one member)    *)
(*   [t |-> "g", key, nonce, ct, j, x]    byte j of the GCM tag computed   *)
(*                                    over ct under (key, nonce), with the *)
(*                                    bits in mask x flipped               *)
(* The unit of length is the cell.  The tag is an ideal MAC: two tags are  *)
(* equal only when key, nonce and ciphertext are equal.                    *)
(***************************************************************************)
EXTENDS Integers, Sequences, FiniteSets, TLC

(* ------------------------------ bounds -------------------------------- *)
\* longest input file, in bytes
MaxRawLen == 1
\* most trailing bytes appended to a container file
MaxAppend == 1

(* ------------------------- program constants -------------------------- *)
VERSION == 1
TAG_LEN == 16
SCRYPT_N == 16384
SCRYPT_R == 8
SCRYPT_P == 1

B(n) == [t |-> "b", v |-> n]
\* the value of a cell as a byte (that of a header or tag cell is not modelled)
ByteOf(c) == IF c.t = "b" THEN c.v ELSE 255
Min(a, b) == IF a < b THEN a ELSE b
MAGIC == <<B(80), B(80), B(67), B(49)>>

\* the values os.urandom can return, each standing for one byte string
Salts == {1, 2}
Nonces == {3}
RawBytes == {0, 255}
Levels == {1, 22}
Passphrases == {"pass", "wrong"}

None == [j |-> "null"]
JStr(s) == [j |-> "str", s |-> s]
JObj(o) == [j |-> "obj", o |-> o]

(* ------------------------------ utils.py ------------------------------ *)
NowIso == "2026-01-01T00:00:00Z"

b64e(n) == "b64_" \o ToString(n)

\* b64d: the byte string whose encoding is s; "error" (binascii.Error, a
\* ValueError) when s is no base64 text
b64d(s) ==
    IF \E n \in Salts \cup Nonces : b64e(n) = s
    THEN [ok |-> TRUE, v |-> CHOOSE n \in Salts \cup Nonces : b64e(n) = s]
    ELSE [ok |-> FALSE, v |-> 0]

(* ------------------------------ detect.py ----------------------------- *)
\* mimetypes.guess_type on the file name
detect_mime(path) ==
    IF path = "hello.txt" THEN "text/plain" ELSE "application/octet-stream"

(* ------------------------------- pyzstd ------------------------------- *)
ZstdMagic == B(40)
IsRun(raw) == Len(raw) >= 2 /\ \A i \in 1..Len(raw) : raw[i] = raw[1]

\* zstd_compress(raw, level): one frame, magic, block type (0 raw, 1 RLE),
\* content size, block.  The level only chooses the block type.
zstd_compress(raw, level) ==
    IF level >= 3 /\ IsRun(raw)
    THEN <<ZstdMagic, B(1), B(Len(raw)), raw[1]>>
    ELSE <<ZstdMagic, B(0), B(Len(raw))>> \o raw


\* ZstdDecompressor().decompress(data): a streaming decompressor, which
\* returns what the input so far yields and raises ZstdError only on data
\* that is no zstd stream
ZstdDecompress(data) ==
    IF Len(data) = 0 THEN [ok |-> TRUE, out |-> <<>>]
    ELSE IF data[1] # ZstdMagic THEN [ok |-> FALSE, out |-> <<>>]
    ELSE IF Len(data) < 3 THEN [ok |-> TRUE, out |-> <<>>]
    ELSE IF ByteOf(data[2]) = 0
         THEN [ok |-> TRUE,
               out |-> SubSeq(data, 4, Min(Len(data), 3 + ByteOf(data[3])))]
    ELSE IF ByteOf(data[2]) = 1
         THEN [ok |-> TRUE,
               out |-> IF Len(data) < 4 THEN <<>>
                       ELSE [i \in 1..ByteOf(data[3]) |-> data[4]]]
    ELSE [ok |-> FALSE, out |-> <<>>]

(* ------------------------------ crypto.py ----------------------------- *)
\* the mutant of derive_key that derives the key from the salt alone
derive_key_salt_only(passphrase, salt) == [pw |-> "", salt |-> salt]

\* scrypt: an ideal KDF, injective in (passphrase, salt)
derive_key(passphrase, salt) == [pw |-> passphrase, salt |-> salt]

PwNum(p) == IF p = "pass" THEN 11 ELSE IF p = "wrong" THEN 23 ELSE 5

\* the AES-CTR keystream byte at position i
KeyStream(key, nonce, i) ==
    (7 * PwNum(key.pw) + 13 * key.salt + 29 * nonce + 31 * i) % 256

TagCells(key, nonce, body) ==
    [j \in 1..TAG_LEN |->
        [t |-> "g", key |-> key, nonce |-> nonce, ct |-> body, j |-> j, x |-> 0]]

\* AESGCM(key).encrypt(nonce, plaintext, None): ciphertext || 16-byte tag
AeadEncrypt(key, nonce, plaintext) ==
    LET body == [i \in 1..Len(plaintext) |->
                    B((ByteOf(plaintext[i]) + KeyStream(key, nonce, i)) % 256)]
    IN  body \o TagCells(key, nonce, body)

\* the mutant of AeadDecrypt that reports a payload shorter than the tag as a
\* ValueError instead of InvalidTag
AeadDecryptShortIsValueError(key, nonce, data) ==
    IF Len(data) < TAG_LEN THEN [ok |-> FALSE, exc |-> "ValueError", out |-> <<>>]
    ELSE LET n == Len(data) - TAG_LEN
             body == SubSeq(data, 1, n)
         IN  IF SubSeq(data, n + 1, Len(data)) # TagCells(key, nonce, body)
             THEN [ok |-> FALSE, exc |-> "InvalidTag", out |-> <<>>]
             ELSE [ok |-> TRUE, exc |-> "",
                   out |-> [i \in 1..n |->
                      B((ByteOf(body[i]) + 256 - KeyStream(key, nonce, i)) % 256)]]

\* the mutant of AeadDecrypt that does not verify the tag
AeadDecryptNoVerify(key, nonce, data) ==
    IF Len(data) < TAG_LEN THEN [ok |-> FALSE, exc |-> "InvalidTag", out |-> <<>>]
    ELSE LET n == Len(data) - TAG_LEN
             body == SubSeq(data, 1, n)
         IN  [ok |-> TRUE, exc |-> "",
              out |-> [i \in 1..n |->
                 B((ByteOf(body[i]) + 256 - KeyStream(key, nonce, i)) % 256)]]

\* AESGCM(key).decrypt(nonce, data, None): InvalidTag when data is shorter
\* than the tag or the tag does not verify
AeadDecrypt(key, nonce, data) ==
    IF Len(data) < TAG_LEN THEN [ok |-> FALSE, exc |-> "InvalidTag", out |-> <<>>]
    ELSE LET n == Len(data) - TAG_LEN
             body == SubSeq(data, 1, n)
         IN  IF SubSeq(data, n + 1, Len(data)) # TagCells(key, nonce, body)
             THEN [ok |-> FALSE, exc |-> "InvalidTag", out |-> <<>>]
             ELSE [ok |-> TRUE, exc |-> "",
                   out |-> [i \in 1..n |->
                      B((ByteOf(body[i]) + 256 - KeyStream(key, nonce, i)) % 256)]]

\* encrypt(plaintext, passphrase) with the salt and nonce urandom returned
encrypt(plaintext, passphrase, salt, nonce) ==
    [ciphertext |-> AeadEncrypt(derive_key(passphrase, salt), nonce, plaintext),
     kdf |-> JObj([name |-> "scrypt", salt_b64 |-> b64e(salt),
                   n |-> SCRYPT_N, r |-> SCRYPT_R, p |-> SCRYPT_P]),
     cipher |-> JObj([name |-> "aes-256-gcm", nonce_b64 |-> b64e(nonce),
                      tag_len |-> TAG_LEN])]

\* decrypt(ciphertext, passphrase, salt_b64, nonce_b64)
decrypt(ciphertext, passphrase, salt_b64, nonce_b64) ==
    LET salt == b64d(salt_b64)
        nonce == b64d(nonce_b64)
    IN  IF ~salt.ok \/ ~nonce.ok
        THEN [ok |-> FALSE, exc |-> "ValueError", out |-> <<>>]
        ELSE AeadDecrypt(derive_key(passphrase, salt.v), nonce.v, ciphertext)

(* ---------------------------- container.py ---------------------------- *)
HeaderFields == <<"mime", "orig_name", "created", "kdf", "cipher", "comp", "notes">>
Required == {"mime", "orig_name", "created", "kdf", "cipher", "comp"}
FieldNames == Required \cup {"notes"}

LBRACE == [t |-> "j", k |-> "{", val |-> None]
RBRACE == [t |-> "j", k |-> "}", val |-> None]
Member(k, v) == [t |-> "j", k |-> k, val |-> v]

\* Header.to_json: json.dumps(self.__dict__), the members in field order
to_json(h) ==
    <<LBRACE>> \o [i \in 1..Len(HeaderFields) |-> Member(HeaderFields[i], h[HeaderFields[i]])]
               \o <<RBRACE>>

IsMember(c) == c.t = "j" /\ c.k \notin {"{", "}", "#bad", "#scalar"}

\* json.loads(data.decode("utf-8")): "error" is UnicodeDecodeError or
\* JSONDecodeError (both ValueError), "scalar" a JSON text that is no object
JsonLoads(data) ==
    IF Len(data) = 1 /\ data[1].t = "j" /\ data[1].k = "#scalar"
    THEN [kind |-> "scalar", keys |-> {}, data |-> <<>>]
    ELSE IF /\ Len(data) >= 2
            /\ data[1] = LBRACE
            /\ data[Len(data)] = RBRACE
            /\ \A i \in 2..(Len(data) - 1) : IsMember(data[i])
    THEN [kind |-> "object",
          keys |-> {data[i].k : i \in 2..(Len(data) - 1)},
          data |-> data]
    ELSE [kind |-> "error", keys |-> {}, data |-> <<>>]

\* the value json.loads keeps for a key: that of its last member
ValueOf(data, k) ==
    LET last == CHOOSE i \in 2..(Len(data) - 1) :
                   /\ data[i].k = k
                   /\ \A j \in (i + 1)..(Len(data) - 1) : data[j].k # k
    IN  data[last].val

NoHeader == [f \in FieldNames |-> None]

\* the mutant of from_json that forgets the optional field
from_json_no_notes(data) ==
    LET obj == JsonLoads(data)
    IN  IF obj.kind = "error" THEN [ok |-> FALSE, exc |-> "ValueError", header |-> NoHeader]
        ELSE IF \/ obj.kind = "scalar"
                \/ ~(obj.keys \subseteq FieldNames)
                \/ ~(Required \subseteq obj.keys)
        THEN [ok |-> FALSE, exc |-> "TypeError", header |-> NoHeader]
        ELSE [ok |-> TRUE, exc |-> "",
              header |-> [f \in FieldNames |->
                  IF f \in obj.keys /\ f # "notes" THEN ValueOf(data, f) ELSE None]]

\* Header.from_json: json.loads, then Header(**obj), which raises TypeError
\* for a value that is no mapping, an unexpected key or a missing required
\* field; notes defaults to None
from_json(data) ==
    LET obj == JsonLoads(data)
    IN  IF obj.kind = "error" THEN [ok |-> FALSE, exc |-> "ValueError", header |-> NoHeader]
        ELSE IF \/ obj.kind = "scalar"
                \/ ~(obj.keys \subseteq FieldNames)
                \/ ~(Required \subseteq obj.keys)
        THEN [ok |-> FALSE, exc |-> "TypeError", header |-> NoHeader]
        ELSE [ok |-> TRUE, exc |-> "",
              header |-> [f \in FieldNames |->
                  IF f \in obj.keys THEN ValueOf(data, f) ELSE None]]

\* struct.pack("<I", n)
LE32(n) ==
    <<B(n % 256), B((n \div 256) % 256), B((n \div 65536) % 256), B((n \div 16777216) % 256)>>

\* struct.unpack("<I", b)[0] on four bytes
FromLE32(b) ==
    ByteOf(b[1]) + 256 * ByteOf(b[2]) + 65536 * ByteOf(b[3]) + 16777216 * ByteOf(b[4])

\* the mutant of pack that writes the header length big-endian
pack_big_endian(header, payload) ==
    LET head_json == to_json(header)
        n == LE32(Len(head_json))
    IN  MAGIC \o <<B(VERSION)>> \o <<n[4], n[3], n[2], n[1]>> \o head_json \o payload

\* pack(header, payload)
pack(header, payload) ==
    LET head_json == to_json(header)
    IN  MAGIC \o <<B(VERSION)>> \o LE32(Len(head_json)) \o head_json \o payload

\* buf.read(n) at offset pos: at most n cells, fewer at the end
BufRead(blob, pos, n) == SubSeq(blob, pos + 1, Min(Len(blob), pos + n))

(* ------------------------------ the state ----------------------------- *)
VARIABLES
    fs,       \* the file system: path -> [exists, data]
    pc,       \* the position of the running command, "idle" between commands
    cmd,      \* the running (or last) command and its arguments
    blob,     \* compress: the packed container; decompress: the file read
    raw,      \* compress: the input read; decompress: the restored bytes
    comp,     \* the compressed bytes
    payload,  \* the ciphertext (with its tag)
    header,   \* the Header built (compress) or parsed (decompress)
    hlen,     \* unpack's header length
    hjson,    \* unpack's header bytes
    result,   \* how the last command ended
    stages,   \* the pipeline stages the running command has executed
    fs0,      \* the file system when the running command started
    enc,      \* what the create command was given and what it wrote
    tamper,   \* how the container file was modified after its creation
    huff      \* the Huffman coder of the image pipeline: its position and locals

vars == <<fs, pc, cmd, blob, raw, comp, payload, header, hlen, hjson, result,
          stages, fs0, enc, tamper, huff>>


(* ---------------------------- the file system ------------------------- *)
Paths == {"hello.txt", "hello.ppc", "restored.txt", "other.bin", "evil.txt",
          "missing.txt", "ro/out"}
\* a path in a directory that cannot be written
Unwritable(path) == path = "ro/out"
NoFile == [exists |-> FALSE, data |-> <<>>]
File(data) == [exists |-> TRUE, data |-> data]

\* the input files: byte strings of at most MaxRawLen bytes
Raws == UNION {[1..n -> {B(v) : v \in RawBytes}] : n \in 0..MaxRawLen}
InputPaths == {"hello.txt"}

\* os.path.splitext(input_path)[0] + ".ppc"
PpcPath(input_path) == IF input_path = "hello.txt" THEN "hello.ppc" ELSE input_path \o ".ppc"

\* Python's  a or b  on strings
Or(a, b) == IF a # "" THEN a ELSE b

\* write_bytes(path, data): the file system after it
write_bytes(f, path, data) == [f EXCEPT ![path] = File(data)]

(* ------------------------- how a command ends ------------------------- *)
NoResult == [cmd |-> "", exit |-> 0, kind |-> "none", exc |-> "", stage |-> "", msg |-> <<>>]
Success(c) == [cmd |-> c, exit |-> 0, kind |-> "ok", exc |-> "", stage |-> "", msg |-> <<>>]
\* click.Path(exists=True) rejects the argument before the command body runs
UsageError(c) ==
    [cmd |-> c, exit |-> 2, kind |-> "UsageError", exc |-> "BadParameter",
     stage |-> "", msg |-> <<"does not exist">>]
\* an exception no except clause catches leaves the command
Unhandled(c, exc, stage, msg) ==
    [cmd |-> c, exit |-> 1, kind |-> "Unhandled", exc |-> exc, stage |-> stage, msg |-> <<msg>>]

AuthMsg == <<"Decryption failed. Invalid passphrase or corrupted data.">>

\* the except clauses of decompress
Catch(exc, stage, msg) ==
    IF exc = "InvalidTag"
    THEN [cmd |-> "decompress", exit |-> 1, kind |-> "ClickException",
          exc |-> exc, stage |-> stage, msg |-> AuthMsg]
    ELSE IF exc \in {"ValueError", "ZstdError"}
    THEN [cmd |-> "decompress", exit |-> 1, kind |-> "ClickException",
          exc |-> exc, stage |-> stage, msg |-> <<"Decompression failed: ", msg>>]
    ELSE Unhandled("decompress", exc, stage, msg)

NoCmd == [name |-> "", input |-> "", output |-> "", passphrase |-> "", level |-> 0, arg_name |-> ""]
NoEnc == [made |-> FALSE, raw |-> <<>>, passphrase |-> "", level |-> 0, mime |-> "",
          orig_name |-> "", path |-> "", blob |-> <<>>, hend |-> 0]
NoTamper == [ver |-> VERSION, op |-> [op |-> "none"]]
\* the ppc command line never runs the Huffman coder
NoHuff == [pc |-> "h_none"]

Init ==
    /\ \E r \in Raws :
          fs = [p \in Paths |-> IF p \in InputPaths THEN File(r) ELSE NoFile]
    /\ pc = "idle"
    /\ cmd = NoCmd
    /\ blob = <<>>
    /\ raw = <<>>
    /\ comp = <<>>
    /\ payload = <<>>
    /\ header = NoHeader
    /\ hlen = 0
    /\ hjson = <<>>
    /\ result = NoResult
    /\ stages = <<>>
    /\ fs0 = fs
    /\ enc = NoEnc
    /\ tamper = NoTamper
    /\ huff = NoHuff

\* a command starts with fresh locals
Fresh ==
    /\ blob' = <<>>
    /\ raw' = <<>>
    /\ comp' = <<>>
    /\ payload' = <<>>
    /\ header' = NoHeader
    /\ hlen' = 0
    /\ hjson' = <<>>
    /\ stages' = <<>>
    /\ fs0' = fs

(* ------------------------------- compress ----------------------------- *)
\* the command line is parsed: click checks that INPUT exists
CompressStart ==
    /\ pc = "idle"
    /\ cmd.name = ""
    /\ \A p \in Paths : p \notin InputPaths => ~fs[p].exists
    /\ \E input_path \in InputPaths \cup {"missing.txt"}, output \in {"", "ro/out"},
          passphrase \in Passphrases, level \in Levels, name \in {"", "other.bin"} :
          cmd' = [name |-> "compress", input |-> input_path, output |-> output,
                  passphrase |-> passphrase, level |-> level, arg_name |-> name]
    /\ Fresh
    /\ IF fs[cmd'.input].exists
       THEN pc' = "c_read" /\ result' = NoResult
       ELSE pc' = "idle" /\ result' = UsageError("compress")
    /\ UNCHANGED <<fs, enc, tamper>>
    /\ UNCHANGED huff

\* 1. raw = read_bytes(input_path)
CRead ==
    /\ pc = "c_read"
    /\ raw' = fs[cmd.input].data
    /\ stages' = Append(stages, "read")
    /\ pc' = "c_compress"
    /\ UNCHANGED <<fs, cmd, blob, comp, payload, header, hlen, hjson, result, fs0, enc, tamper>>
    /\ UNCHANGED huff

\* 2-3. detect_mime, then comp = zstd_compress(raw, level)
CCompress ==
    /\ pc = "c_compress"
    /\ comp' = zstd_compress(raw, cmd.level)
    /\ stages' = Append(stages, "compress")
    /\ pc' = "c_encrypt"
    /\ UNCHANGED <<fs, cmd, blob, raw, payload, header, hlen, hjson, result, fs0, enc, tamper>>
    /\ UNCHANGED huff

\* 4-5. ciphertext, crypt_hdr = encrypt(comp, passphrase); header = Header(...)
CEncrypt ==
    /\ pc = "c_encrypt"
    /\ \E salt \in Salts, nonce \in Nonces :
          LET e == encrypt(comp, cmd.passphrase, salt, nonce)
          IN  /\ payload' = e.ciphertext
              /\ header' = [mime |-> JStr(detect_mime(cmd.input)),
                            orig_name |-> JStr(Or(cmd.arg_name, cmd.input)),
                            created |-> JStr(NowIso),
                            kdf |-> e.kdf,
                            cipher |-> e.cipher,
                            comp |-> JObj([name |-> "zstd", level |-> cmd.level]),
                            notes |-> JStr("PPC-1: Universal container ready for AI compression.")]
    /\ stages' = Append(stages, "encrypt")
    /\ pc' = "c_pack"
    /\ UNCHANGED <<fs, cmd, blob, raw, comp, hlen, hjson, result, fs0, enc, tamper>>
    /\ UNCHANGED huff

\* blob = pack(header, ciphertext)
CPack ==
    /\ pc = "c_pack"
    /\ blob' = pack(header, payload)
    /\ stages' = Append(stages, "pack")
    /\ pc' = "c_write"
    /\ UNCHANGED <<fs, cmd, raw, comp, payload, header, hlen, hjson, result, fs0, enc, tamper>>
    /\ UNCHANGED huff

\* write_bytes(out, blob), which raises OSError when the directory cannot be
\* written; upload is "none"
CWrite ==
    /\ pc = "c_write"
    /\ LET out == Or(cmd.output, PpcPath(cmd.input))
       IN  IF Unwritable(out)
           THEN /\ result' = Unhandled("compress", "OSError", "write", "Permission denied")
                /\ UNCHANGED <<fs, enc>>
           ELSE /\ fs' = write_bytes(fs, out, blob)
                /\ result' = Success("compress")
                /\ enc' = [made |-> TRUE, raw |-> raw, passphrase |-> cmd.passphrase,
                           level |-> cmd.level, mime |-> detect_mime(cmd.input),
                           orig_name |-> Or(cmd.arg_name, cmd.input), path |-> out,
                           blob |-> blob, hend |-> 9 + Len(to_json(header))]
    /\ stages' = Append(stages, "write")
    /\ pc' = "idle"
    /\ UNCHANGED <<cmd, blob, raw, comp, payload, header, hlen, hjson, fs0, tamper>>
    /\ UNCHANGED huff


(* ------------------- the container file is modified ------------------- *)
\* one bit of a cell flipped.  In a header cell, bit 0 stands for a flip that
\* breaks the JSON text and bit 1 for one that changes a member's key.
FlipCell(c, bit) ==
    IF c.t = "b"
    THEN LET w == IF bit = 0 THEN 1 ELSE 2
         IN  B(IF (c.v \div w) % 2 = 0 THEN c.v + w ELSE c.v - w)
    ELSE IF c.t = "g"
    THEN [c EXCEPT !.x = IF bit = 0 THEN 1 ELSE 2]
    ELSE IF bit = 1 /\ IsMember(c) THEN [c EXCEPT !.k = c.k \o "~"]
    ELSE [t |-> "j", k |-> "#bad", val |-> None]

HeaderVariants ==
    {[v |-> "drop", f |-> f] : f \in FieldNames}
    \cup {[v |-> "set", f |-> f, to |-> JStr("evil.txt")] : f \in {"mime", "orig_name"}}
    \cup {[v |-> "set", f |-> "created", to |-> JStr("1970-01-01T00:00:00+00:00")],
          [v |-> "set", f |-> "notes", to |-> None],
          [v |-> "set", f |-> "comp", to |-> JObj([name |-> "none", level |-> 0])],
          [v |-> "kdfparams"], [v |-> "cipherparams"]}
    \cup {[v |-> "extra"], [v |-> "nosalt"], [v |-> "scalar"]}

\* the header JSON rewritten as another JSON text
VariantJson(hj, var) ==
    IF var.v = "drop" THEN SelectSeq(hj, LAMBDA c : c.k # var.f)
    ELSE IF var.v = "set"
    THEN [i \in 1..Len(hj) |-> IF hj[i].k = var.f THEN Member(var.f, var.to) ELSE hj[i]]
    ELSE IF var.v = "extra"
    THEN SubSeq(hj, 1, Len(hj) - 1) \o <<Member("owner", JStr("x")), RBRACE>>
    ELSE IF var.v = "nosalt"
    THEN [i \in 1..Len(hj) |->
            IF hj[i].k = "kdf"
            THEN Member("kdf", JObj([name |-> "scrypt", n |-> SCRYPT_N,
                                     r |-> SCRYPT_R, p |-> SCRYPT_P]))
            ELSE hj[i]]
    ELSE IF var.v = "kdfparams"
    THEN [i \in 1..Len(hj) |->
            IF hj[i].k = "kdf"
            THEN Member("kdf", JObj([hj[i].val.o EXCEPT !.name = "pbkdf2", !.n = 2,
                                                        !.r = 1, !.p = 2]))
            ELSE hj[i]]
    ELSE IF var.v = "cipherparams"
    THEN [i \in 1..Len(hj) |->
            IF hj[i].k = "cipher"
            THEN Member("cipher", JObj([hj[i].val.o EXCEPT !.name = "none", !.tag_len = 0]))
            ELSE hj[i]]
    ELSE <<[t |-> "j", k |-> "#scalar", val |-> None]>>

\* the single modifications of a container b whose header ends at hend
TamperOps(b, hend) ==
    {[op |-> "none"]}
    \cup {[op |-> "flip", i |-> i, bit |-> bit] : i \in 1..Len(b), bit \in {0, 1}}
    \cup {[op |-> "trunc", k |-> k] : k \in 0..(Len(b) - 1)}
    \cup {[op |-> "append", n |-> n] : n \in 1..MaxAppend}
    \cup {[op |-> "header", var |-> var] : var \in HeaderVariants}

ApplyOp(b, hend, op) ==
    IF op.op = "flip" THEN [b EXCEPT ![op.i] = FlipCell(b[op.i], op.bit)]
    ELSE IF op.op = "trunc" THEN SubSeq(b, 1, op.k)
    ELSE IF op.op = "append" THEN b \o [i \in 1..op.n |-> B(0)]
    ELSE IF op.op = "header"
    THEN LET hj == VariantJson(SubSeq(b, 10, hend), op.var)
         IN  MAGIC \o <<b[5]>> \o LE32(Len(hj)) \o hj \o SubSeq(b, hend + 1, Len(b))
    ELSE b

\* the version byte overwritten with v (v = VERSION: left as it is)
SetVersion(b, v) == IF Len(b) >= 5 /\ v # VERSION THEN [b EXCEPT ![5] = B(v)] ELSE b

\* the version bytes a modified container may carry
Versions == {VERSION, VERSION + 1}

\* someone modifies the container file after its creation: one modification
\* of TamperOps, the version byte overwritten, or both
Tamper ==
    /\ pc = "idle"
    /\ enc.made
    /\ tamper = NoTamper
    /\ \E v \in Versions : \E op \in TamperOps(enc.blob, enc.hend) :
          /\ ~(v = VERSION /\ op.op = "none")
          /\ v # VERSION => op.op \in {"none", "trunc", "flip", "append"}
          /\ v # VERSION /\ op.op = "trunc" => op.k >= 5
          /\ v # VERSION /\ op.op = "flip" => op.i >= 6
          /\ fs' = [fs EXCEPT ![enc.path] =
                        File(SetVersion(ApplyOp(enc.blob, enc.hend, op), v))]
          /\ tamper' = [ver |-> v, op |-> op]
    /\ UNCHANGED <<pc, cmd, blob, raw, comp, payload, header, hlen, hjson, result, stages, fs0, enc>>
    /\ UNCHANGED huff

\* plaintexts that encrypt() is given by a caller other than compress
ForgedPlaintexts == {<<B(9)>>, <<ZstdMagic, B(0), B(2), B(0)>>, <<ZstdMagic, B(7), B(0)>>}

\* a container made with encrypt and pack around bytes that are no complete
\* zstd frame
Forge ==
    /\ pc = "idle"
    /\ cmd.name = ""
    /\ ~fs["hello.ppc"].exists
    /\ \E pt \in ForgedPlaintexts, passphrase \in Passphrases, salt \in Salts, nonce \in Nonces :
          LET e == encrypt(pt, passphrase, salt, nonce)
              h == [mime |-> JStr("application/octet-stream"), orig_name |-> JStr("other.bin"),
                    created |-> JStr(NowIso), kdf |-> e.kdf, cipher |-> e.cipher,
                    comp |-> JObj([name |-> "zstd", level |-> 7]), notes |-> None]
          IN  fs' = write_bytes(fs, "hello.ppc", pack(h, e.ciphertext))
    /\ UNCHANGED <<pc, cmd, blob, raw, comp, payload, header, hlen, hjson, result, stages, fs0, enc, tamper>>
    /\ UNCHANGED huff

(* ------------------------------ decompress ---------------------------- *)
\* the -o option of decompress: absent, a writable path, an unwritable one
Outputs == {"", "restored.txt", "ro/out"}
\* the mutant of Raise after which the command goes on to decompress
RaiseAndGoOn(exc, stage, msg) ==
    /\ result' = Catch(exc, stage, msg)
    /\ pc' = "d_zstd"

\* an exception leaves the try block: the command ends there
Raise(exc, stage, msg) ==
    /\ result' = Catch(exc, stage, msg)
    /\ pc' = "done"

DecompressStart ==
    /\ pc = "idle"
    /\ cmd.name # "decompress"
    /\ \E container_path \in {"hello.ppc"}, output \in Outputs, passphrase \in Passphrases :
          cmd' = [name |-> "decompress", input |-> container_path, output |-> output,
                  passphrase |-> passphrase, level |-> 0, arg_name |-> ""]
    /\ Fresh
    /\ IF fs[cmd'.input].exists
       THEN pc' = "d_read" /\ result' = NoResult
       ELSE pc' = "done" /\ result' = UsageError("decompress")
    /\ UNCHANGED <<fs, enc, tamper>>
    /\ UNCHANGED huff

\* blob = read_bytes(container_path)
DRead ==
    /\ pc = "d_read"
    /\ blob' = fs[cmd.input].data
    /\ stages' = Append(stages, "read")
    /\ pc' = "d_magic"
    /\ UNCHANGED <<fs, cmd, raw, comp, payload, header, hlen, hjson, result, fs0, enc, tamper>>
    /\ UNCHANGED huff

\* unpack: if buf.read(4) != MAGIC: raise ValueError
DMagic ==
    /\ pc = "d_magic"
    /\ stages' = Append(stages, "magic")
    /\ IF BufRead(blob, 0, 4) # MAGIC
       THEN Raise("ValueError", "unpack", "Not a PPC container")
       ELSE pc' = "d_version" /\ UNCHANGED result
    /\ UNCHANGED <<fs, cmd, blob, raw, comp, payload, header, hlen, hjson, fs0, enc, tamper>>
    /\ UNCHANGED huff

\* the mutant of VersionOk that accepts every version up to VERSION
VersionOkUpTo(ver) == ver <= VERSION

\* unpack's version test
VersionOk(ver) == ver = VERSION

\* unpack: ver = struct.unpack("<B", buf.read(1))[0], which raises
\* struct.error on no byte; if ver != VERSION: raise ValueError
DVersion ==
    /\ pc = "d_version"
    /\ stages' = Append(stages, "version")
    /\ LET b == BufRead(blob, 4, 1)
       IN  IF Len(b) < 1
           THEN Raise("struct.error", "unpack", "unpack requires a buffer of 1 bytes")
           ELSE IF ~VersionOk(ByteOf(b[1]))
           THEN Raise("ValueError", "unpack", "Unsupported PPC version: " \o ToString(ByteOf(b[1])))
           ELSE pc' = "d_hlen" /\ UNCHANGED result
    /\ UNCHANGED <<fs, cmd, blob, raw, comp, payload, header, hlen, hjson, fs0, enc, tamper>>
    /\ UNCHANGED huff

\* unpack: hlen = struct.unpack("<I", buf.read(4))[0], which raises
\* struct.error on fewer than 4 bytes
DHlen ==
    /\ pc = "d_hlen"
    /\ stages' = Append(stages, "hlen")
    /\ LET b == BufRead(blob, 5, 4)
       IN  IF Len(b) < 4
           THEN /\ Raise("struct.error", "unpack", "unpack requires a buffer of 4 bytes")
                /\ UNCHANGED hlen
           ELSE /\ hlen' = FromLE32(b)
                /\ pc' = "d_hjson"
                /\ UNCHANGED result
    /\ UNCHANGED <<fs, cmd, blob, raw, comp, payload, header, hjson, fs0, enc, tamper>>
    /\ UNCHANGED huff

\* unpack: hjson = buf.read(hlen); if len(hjson) < hlen: raise ValueError
DHjson ==
    /\ pc = "d_hjson"
    /\ stages' = Append(stages, "hjson")
    /\ LET b == BufRead(blob, 9, hlen)
       IN  IF Len(b) < hlen
           THEN /\ Raise("ValueError", "unpack", "Container is truncated or header length is corrupt")
                /\ UNCHANGED hjson
           ELSE /\ hjson' = b
                /\ pc' = "d_parse"
                /\ UNCHANGED result
    /\ UNCHANGED <<fs, cmd, blob, raw, comp, payload, header, hlen, fs0, enc, tamper>>
    /\ UNCHANGED huff

\* unpack: header = Header.from_json(hjson); payload = buf.read()
DParse ==
    /\ pc = "d_parse"
    /\ stages' = Append(stages, "parse")
    /\ LET h == from_json(hjson)
       IN  IF ~h.ok
           THEN /\ Raise(h.exc, "unpack", "Header.from_json")
                /\ UNCHANGED <<header, payload>>
           ELSE /\ header' = h.header
                /\ payload' = BufRead(blob, 9 + hlen, Len(blob))
                /\ pc' = "d_decrypt"
                /\ UNCHANGED result
    /\ UNCHANGED <<fs, cmd, blob, raw, comp, hlen, hjson, fs0, enc, tamper>>
    /\ UNCHANGED huff

\* comp = decrypt(payload, passphrase, header.kdf["salt_b64"],
\*                header.cipher["nonce_b64"])
DDecrypt ==
    /\ pc = "d_decrypt"
    /\ stages' = Append(stages, "decrypt")
    /\ IF header.kdf.j # "obj" \/ header.cipher.j # "obj"
       THEN Raise("TypeError", "decrypt", "not subscriptable") /\ UNCHANGED comp
       ELSE IF "salt_b64" \notin DOMAIN header.kdf.o \/ "nonce_b64" \notin DOMAIN header.cipher.o
       THEN Raise("KeyError", "decrypt", "salt_b64") /\ UNCHANGED comp
       ELSE LET d == decrypt(payload, cmd.passphrase, header.kdf.o.salt_b64,
                             header.cipher.o.nonce_b64)
            IN  IF ~d.ok
                THEN Raise(d.exc, "decrypt", "decrypt") /\ UNCHANGED comp
                ELSE comp' = d.out /\ pc' = "d_zstd" /\ UNCHANGED result
    /\ UNCHANGED <<fs, cmd, blob, raw, payload, header, hlen, hjson, fs0, enc, tamper>>
    /\ UNCHANGED huff

\* raw = ZstdDecompressor().decompress(comp)
DZstd ==
    /\ pc = "d_zstd"
    /\ stages' = Append(stages, "decompress")
    /\ LET z == ZstdDecompress(comp)
       IN  IF ~z.ok
           THEN Raise("ZstdError", "decompress", "zstd") /\ UNCHANGED raw
           ELSE raw' = z.out /\ pc' = "d_write" /\ UNCHANGED result
    /\ UNCHANGED <<fs, cmd, blob, comp, payload, header, hlen, hjson, fs0, enc, tamper>>
    /\ UNCHANGED huff

\* the mutant of DefaultOut that never takes the name from the header
DefaultOutFixed(output, h) == Or(output, "restored.txt")

\* out = output or header.orig_name
DefaultOut(output, h) == Or(output, h.orig_name.s)

\* the mutant of WriteReached that writes the output before decompressing
WriteReachedEarly == pc = "d_zstd"

\* out = output or header.orig_name; write_bytes(out, raw) follows the try
\* block
WriteReached == pc = "d_write"

DWrite ==
    /\ WriteReached
    /\ stages' = Append(stages, "write")
    /\ LET out == DefaultOut(cmd.output, header)
       IN  IF Unwritable(out)
           THEN /\ result' = Unhandled("decompress", "OSError", "write", "Permission denied")
                /\ UNCHANGED fs
           ELSE /\ fs' = write_bytes(fs, out, raw)
                /\ result' = Success("decompress")
    /\ pc' = "done"
    /\ UNCHANGED <<cmd, blob, raw, comp, payload, header, hlen, hjson, fs0, enc, tamper>>
    /\ UNCHANGED huff

(* --------------------------- the specification ------------------------ *)

Next ==
    \/ CompressStart
    \/ CRead
    \/ CCompress
    \/ CEncrypt
    \/ CPack
    \/ CWrite
    \/ Tamper
    \/ Forge
    \/ DecompressStart
    \/ DRead
    \/ DMagic
    \/ DVersion
    \/ DHlen
    \/ DHjson
    \/ DParse
    \/ DDecrypt
    \/ DZstd
    \/ DWrite

Spec == Init /\ [][Next]_vars

(* ------------------- the Huffman coder (src/huffman.py) ---------------- *)

MaxSymbol == 2
MaxDataLen == 4

\* the quantised indices an image yields: integers
Symbols == 0..MaxSymbol
Datas == UNION {[1..n -> Symbols] : n \in 1..MaxDataLen}

\* a node's char: an integer, or None for a merged node
Num(c) == [j |-> "num", n |-> c]

\* HuffmanNode(char, freq)
HuffmanNode(char, freq) == [char |-> char, freq |-> freq, left |-> None, right |-> None]

\* HuffmanNode.__lt__
Lt(a, b) == a.freq < b.freq

\* build_freq_map: a dict, kept as its (key, count) pairs in insertion order
RECURSIVE CountItems(_, _)
CountItems(data, freq_map) ==
    IF data = <<>> THEN freq_map
    ELSE LET item == Head(data)
             at == {i \in 1..Len(freq_map) : freq_map[i][1] = item}
         IN  IF at = {}
             THEN CountItems(Tail(data), Append(freq_map, <<item, 1>>))
             ELSE LET i == CHOOSE i \in at : TRUE
                  IN  CountItems(Tail(data),
                                 [freq_map EXCEPT ![i] = <<item, freq_map[i][2] + 1>>])

build_freq_map(data) == CountItems(data, <<>>)

\* heapq._siftdown(heap, startpos, pos); heap[i] of the code is heap[i + 1]
RECURSIVE SiftDownLoop(_, _, _, _)
SiftDownLoop(heap, startpos, pos, newitem) ==
    IF pos > startpos
    THEN LET parentpos == (pos - 1) \div 2
             parent == heap[parentpos + 1]
         IN  IF Lt(newitem, parent)
             THEN SiftDownLoop([heap EXCEPT ![pos + 1] = parent], startpos, parentpos, newitem)
             ELSE [heap EXCEPT ![pos + 1] = newitem]
    ELSE [heap EXCEPT ![pos + 1] = newitem]

siftdown(heap, startpos, pos) == SiftDownLoop(heap, startpos, pos, heap[pos + 1])

\* heapq._siftup(heap, pos)
RECURSIVE SiftUpLoop(_, _, _, _, _)
SiftUpLoop(heap, startpos, pos, childpos, newitem) ==
    IF childpos < Len(heap)
    THEN LET rightpos == childpos + 1
             c == IF rightpos < Len(heap) /\ ~Lt(heap[childpos + 1], heap[rightpos + 1])
                  THEN rightpos ELSE childpos
         IN  SiftUpLoop([heap EXCEPT ![pos + 1] = heap[c + 1]], startpos, c, 2 * c + 1, newitem)
    ELSE siftdown([heap EXCEPT ![pos + 1] = newitem], startpos, pos)

siftup(heap, pos) == SiftUpLoop(heap, pos, pos, 2 * pos + 1, heap[pos + 1])

\* heapq.heapify(x): for i in reversed(range(n // 2)): _siftup(x, i)
RECURSIVE HeapifyFrom(_, _)
HeapifyFrom(x, i) == IF i < 0 THEN x ELSE HeapifyFrom(siftup(x, i), i - 1)

heapify(x) == HeapifyFrom(x, (Len(x) \div 2) - 1)

\* heapq.heappop(heap): the item and the heap left
heappop(heap) ==
    LET lastelt == heap[Len(heap)]
        rest == SubSeq(heap, 1, Len(heap) - 1)
    IN  IF rest # <<>>
        THEN [item |-> rest[1], heap |-> siftup([rest EXCEPT ![1] = lastelt], 0)]
        ELSE [item |-> lastelt, heap |-> rest]

\* heapq.heappush(heap, item)
heappush(heap, item) == siftdown(Append(heap, item), 0, Len(heap))

\* build_huffman_tree: the loop that merges the two smallest nodes
RECURSIVE MergeLoop(_)
MergeLoop(priority_queue) ==
    IF Len(priority_queue) > 1
    THEN LET l == heappop(priority_queue)
             r == heappop(l.heap)
             merged == [HuffmanNode(None, l.item.freq + r.item.freq)
                           EXCEPT !.left = l.item, !.right = r.item]
         IN  MergeLoop(heappush(r.heap, merged))
    ELSE priority_queue

build_huffman_tree(freq_map) ==
    LET priority_queue ==
            MergeLoop(heapify([i \in 1..Len(freq_map) |->
                                  HuffmanNode(Num(freq_map[i][1]), freq_map[i][2])]))
    IN  IF priority_queue = <<>> THEN None ELSE priority_queue[1]

\* _build_huffman_codes_recursive: the codes written into the dict, a code
\* being the sequence of its characters "0" and "1"
RECURSIVE build_huffman_codes_recursive(_, _)
build_huffman_codes_recursive(node, current_code) ==
    IF node = None THEN [c \in {} |-> <<>>]
    ELSE IF node.char # None THEN (node.char.n :> current_code)
    ELSE build_huffman_codes_recursive(node.right, Append(current_code, "1"))
         @@ build_huffman_codes_recursive(node.left, Append(current_code, "0"))

build_huffman_codes(huffman_tree) == build_huffman_codes_recursive(huffman_tree, <<>>)

\* huffman_encoding: "".join(huffman_codes[value] for value in data)
RECURSIVE huffman_encoding(_, _)
huffman_encoding(data, huffman_codes) ==
    IF data = <<>> THEN <<>>
    ELSE huffman_codes[Head(data)] \o huffman_encoding(Tail(data), huffman_codes)

IsLeaf(node) == node.left = None /\ node.right = None

\* huffman_decoding: the loop over the bits
RECURSIVE DecodeLoop(_, _, _, _)
DecodeLoop(encoded_data, huffman_tree, current_node, decoded_output) ==
    IF encoded_data = <<>> THEN decoded_output
    ELSE LET node == IF Head(encoded_data) = "0" THEN current_node.left
                     ELSE current_node.right
         IN  IF IsLeaf(node)
             THEN DecodeLoop(Tail(encoded_data), huffman_tree, huffman_tree,
                             Append(decoded_output, node.char.n))
             ELSE DecodeLoop(Tail(encoded_data), huffman_tree, node, decoded_output)

huffman_decoding(encoded_data, huffman_tree) ==
    IF huffman_tree = None THEN <<>>
    ELSE IF IsLeaf(huffman_tree)
    THEN [i \in 1..Len(encoded_data) |-> huffman_tree.char.n]
    ELSE DecodeLoop(encoded_data, huffman_tree, huffman_tree, <<>>)

\* json.dump writes the integer keys of freq_map as strings, in dict order
JsonKey(k) == ToString(k)
JsonDumpFreqMap(freq_map) == [i \in 1..Len(freq_map) |-> <<JsonKey(freq_map[i][1]), freq_map[i][2]>>]
\* int(k)
IntOfKey(k) == CHOOSE n \in 0..(MaxSymbol + 1) : ToString(n) = k
\* {int(k): v for k, v in freq_map_str_keys.items()}
LoadFreqMap(stored) == [i \in 1..Len(stored) |-> <<IntOfKey(stored[i][1]), stored[i][2]>>]

HuffStart(data) ==
    [pc |-> "h_start", data |-> data, freq_map |-> <<>>, huffman_tree |-> None,
     huffman_codes |-> [c \in {} |-> <<>>], encoded_data |-> <<>>, stored |-> <<>>,
     loaded |-> <<>>, rebuilt |-> None, decoded |-> <<>>]

\* the variables of the ppc command line, which the coder never touches
ppcvars == <<fs, pc, cmd, blob, raw, comp, payload, header, hlen, hjson, result,
             stages, fs0, enc, tamper>>

HuffInit ==
    /\ fs = [p \in Paths |-> NoFile]
    /\ pc = "idle"
    /\ cmd = NoCmd
    /\ blob = <<>>
    /\ raw = <<>>
    /\ comp = <<>>
    /\ payload = <<>>
    /\ header = NoHeader
    /\ hlen = 0
    /\ hjson = <<>>
    /\ result = NoResult
    /\ stages = <<>>
    /\ fs0 = fs
    /\ enc = NoEnc
    /\ tamper = NoTamper
    /\ \E data \in Datas : huff = HuffStart(data)

\* compress_image: freq_map, huffman_tree, huffman_codes
HuffBuild ==
    /\ huff.pc = "h_start"
    /\ LET freq_map == build_freq_map(huff.data)
           huffman_tree == build_huffman_tree(freq_map)
       IN  huff' = [huff EXCEPT !.pc = "h_built", !.freq_map = freq_map,
                                !.huffman_tree = huffman_tree,
                                !.huffman_codes = build_huffman_codes(huffman_tree)]
    /\ UNCHANGED ppcvars

\* compress_image: encoded_data, and json.dump of freq_map and encoded_string
HuffEncode ==
    /\ huff.pc = "h_built"
    /\ huff' = [huff EXCEPT !.pc = "h_saved",
                            !.encoded_data = huffman_encoding(huff.data, huff.huffman_codes),
                            !.stored = JsonDumpFreqMap(huff.freq_map)]
    /\ UNCHANGED ppcvars

\* decompress_image: json.load, the keys back to integers, the tree rebuilt
HuffLoad ==
    /\ huff.pc = "h_saved"
    /\ LET freq_map == LoadFreqMap(huff.stored)
       IN  huff' = [huff EXCEPT !.pc = "h_loaded", !.loaded = freq_map,
                                !.rebuilt = build_huffman_tree(freq_map)]
    /\ UNCHANGED ppcvars

\* decompress_image: decoded_indices_list = huffman_decoding(encoded_data, huffman_tree)
HuffDecode ==
    /\ huff.pc = "h_loaded"
    /\ huff' = [huff EXCEPT !.pc = "h_decoded",
                            !.decoded = huffman_decoding(huff.encoded_data, huff.rebuilt)]
    /\ UNCHANGED ppcvars

HuffNext ==
    \/ HuffBuild
    \/ HuffEncode
    \/ HuffLoad
    \/ HuffDecode

HuffSpec == HuffInit /\ [][HuffNext]_vars


(* ------------------------------ the claims ---------------------------- *)
\* a restore command has ended
Restored == pc = "done" /\ cmd.name = "decompress" /\ result.cmd = "decompress"
\* the restore command read the container exactly as the create command wrote it
Untampered == enc.made /\ blob = enc.blob
SamePassphrase == cmd.passphrase = enc.passphrase
\* where the restore command writes
OutPath == Or(cmd.output, header.orig_name.s)
\* the container read has the header the create command wrote, and other
\* bytes after it
CiphertextAltered ==
    /\ enc.made
    /\ Len(blob) >= enc.hend
    /\ SubSeq(blob, 1, enc.hend) = SubSeq(enc.blob, 1, enc.hend)
    /\ blob # enc.blob
AuthFailure ==
    [cmd |-> "decompress", exit |-> 1, kind |-> "ClickException", exc |-> "InvalidTag",
     stage |-> "decrypt", msg |-> AuthMsg]

\* C1: restoring an unmodified container with the passphrase it was created
\* with yields the input bytes and the mime and orig_name given at creation,
\* and ends with exit code 0 and the bytes in the output file (unless the
\* output path itself cannot be written)
C1_RoundTrip ==
    Restored /\ Untampered /\ SamePassphrase =>
        /\ raw = enc.raw
        /\ header.mime = JStr(enc.mime)
        /\ header.orig_name = JStr(enc.orig_name)
        /\ IF Unwritable(OutPath)
           THEN result.exc = "OSError"
           ELSE result = Success("decompress") /\ fs[OutPath] = File(enc.raw)

C1_Witness ==
    /\ Restored /\ Untampered /\ SamePassphrase
    /\ enc.raw = <<>>
    /\ enc.orig_name = "other.bin"
    /\ result.exit = 0
    /\ fs["restored.txt"] = File(enc.raw)

\* C2: restoring an unmodified container with another passphrase than the
\* one it was created with ends in the authentication failure, raised by
\* decrypt, and in no other error and no success
C2_WrongPassphrase ==
    Restored /\ Untampered /\ ~SamePassphrase =>
        /\ result.kind = "ClickException"
        /\ result.exc = "InvalidTag"
        /\ result.stage = "decrypt"
        /\ result.msg = AuthMsg
        /\ result.exit # 0

C2_Witness ==
    /\ Restored /\ Untampered /\ ~SamePassphrase
    /\ enc.raw # <<>>
    /\ result.exc = "InvalidTag"

\* C3: when the bytes after the header differ from the AEAD output (a bit
\* flipped, bytes appended), unpack succeeds and hands every byte after the
\* header to decrypt, and the restore with the right passphrase ends in the
\* authentication failure with no plaintext restored
C3_TamperDetected ==
    Restored /\ CiphertextAltered /\ SamePassphrase =>
        /\ payload = SubSeq(blob, enc.hend + 1, Len(blob))
        /\ header = from_json(SubSeq(enc.blob, 10, enc.hend)).header
        /\ result.kind = "ClickException"
        /\ result.exc = "InvalidTag"
        /\ raw = <<>>
        /\ fs = fs0

C3_Witness ==
    /\ Restored /\ CiphertextAltered /\ SamePassphrase
    /\ tamper.op.op = "append"
    /\ Len(payload) = Len(enc.blob) - enc.hend + 1
    /\ result.exc = "InvalidTag"

\* C4 (as the claim states it, in its weakest reading): restoring a proper
\* prefix of a container ends in a handled error (of the truncated or format
\* kind, or the authentication failure), never in an unhandled exception and
\* never in success
C4_TruncationHandled ==
    Restored /\ enc.made /\ Len(blob) < Len(enc.blob)
             /\ blob = SubSeq(enc.blob, 1, Len(blob)) =>
        /\ result.kind = "ClickException"
        /\ result.exc \in {"ValueError", "ZstdError", "InvalidTag"}

\* C5: a container that starts with MAGIC and carries another version byte
\* than VERSION ends unpack with the unsupported-version error, whatever
\* follows the version byte, and unpack reads neither the header length nor
\* the header
WrongVersion ==
    /\ cmd.name = "decompress"
    /\ pc \notin {"idle", "d_read"}
    /\ Len(blob) >= 5
    /\ SubSeq(blob, 1, 4) = MAGIC
    /\ blob[5] # B(VERSION)

C5_VersionGate ==
    WrongVersion =>
        /\ \A i \in 1..Len(stages) : stages[i] \in {"read", "magic", "version"}
        /\ hlen = 0 /\ hjson = <<>> /\ header = NoHeader /\ payload = <<>>
        /\ pc \in {"d_magic", "d_version", "done"}
        /\ pc = "done" =>
              /\ result.exc = "ValueError"
              /\ result.stage = "unpack"
              /\ result.msg = <<"Decompression failed: ",
                                "Unsupported PPC version: " \o ToString(ByteOf(blob[5]))>>

C5_Witness ==
    /\ WrongVersion
    /\ pc = "done"
    /\ Len(blob) = 5
    /\ result.exc = "ValueError"

\* C6 (as the claim states it): every failure of a restore reaches the caller
\* as a handled error whose message names the stage that failed: a failure of
\* unpack is not reported as a decompression failure
C6_DistinctKinds ==
    Restored /\ result.kind \notin {"ok", "UsageError"} /\ result.exc # "OSError" =>
        /\ result.kind = "ClickException"
        /\ result.msg[1] = "Decompression failed: " <=> result.stage = "decompress"

\* C7 (as the claim states it): when the header bytes are no JSON text, or
\* are a JSON object that lacks a required field, Header.from_json fails with
\* the format error (ValueError) that unpack propagates and decompress
\* handles
HeaderMalformed ==
    \/ JsonLoads(hjson).kind = "error"
    \/ JsonLoads(hjson).kind = "object" /\ ~(Required \subseteq JsonLoads(hjson).keys)

C7_HeaderFormatError ==
    Restored /\ Len(stages) > 0 /\ stages[Len(stages)] = "parse" /\ HeaderMalformed =>
        /\ result.exc = "ValueError"
        /\ result.kind = "ClickException"

\* C8: the restore command changes the file system only by writing the
\* output file after unpack, decrypt and decompress have all succeeded, so a
\* restore that fails leaves every file as it was; the create command
\* changes it only by writing the complete packed container
C8_AllOrNothing ==
    /\ cmd.name = "decompress" /\ fs # fs0 =>
          /\ result = Success("decompress")
          /\ stages = <<"read", "magic", "version", "hlen", "hjson", "parse",
                        "decrypt", "decompress", "write">>
          /\ fs = [fs0 EXCEPT ![OutPath] = File(raw)]
    /\ cmd.name = "decompress" /\ result.exit # 0 => fs = fs0
    /\ cmd.name = "compress" /\ tamper = NoTamper /\ fs # fs0 =>
          /\ result = Success("compress")
          /\ stages = <<"read", "compress", "encrypt", "pack", "write">>
          /\ fs = [fs0 EXCEPT ![enc.path] =
                      File(pack(header, AeadEncrypt(
                          derive_key(cmd.passphrase, b64d(header.kdf.o.salt_b64).v),
                          b64d(header.cipher.o.nonce_b64).v,
                          zstd_compress(fs0[cmd.input].data, cmd.level))))]

C8_Witness ==
    /\ Restored
    /\ result.exc = "ZstdError"
    /\ fs = fs0
    /\ ~fs["restored.txt"].exists

\* C9 (as the claim states it): a command that ends in a local file error
\* (missing input, unwritable output) has executed no pipeline stage
PipelineStages == {"compress", "encrypt", "pack", "magic", "version", "hlen", "hjson",
                   "parse", "decrypt", "decompress"}

C9_IoErrorsFirst ==
    result.exc = "OSError" \/ result.kind = "UsageError" =>
        \A i \in 1..Len(stages) : stages[i] \notin PipelineStages

\* C10: a restore with a wrong passphrase and a restore of a container whose
\* ciphertext was modified or cut (also below the tag length) end in the same
\* result, error kind and message; and no failure of another kind carries
\* that kind or that message
C10_AuthIndistinguishable ==
    Restored =>
        /\ (Untampered /\ ~SamePassphrase) \/ CiphertextAltered => result = AuthFailure
        /\ result.exc = "InvalidTag" \/ result.msg = AuthMsg => result = AuthFailure
        /\ result.stage \in {"unpack", "decompress"} => result.msg # AuthMsg

C10_Witness ==
    /\ Restored /\ CiphertextAltered /\ SamePassphrase
    /\ tamper.op.op = "trunc"
    /\ Len(blob) - enc.hend < TAG_LEN
    /\ result = AuthFailure

\* unpack(blob) as one function: the header and the payload, or the exception
\* of the first test that fails
UnpackError(exc) == [ok |-> FALSE, exc |-> exc, header |-> NoHeader, payload |-> <<>>]

unpack(b) ==
    IF BufRead(b, 0, 4) # MAGIC THEN UnpackError("ValueError")
    ELSE IF Len(BufRead(b, 4, 1)) < 1 THEN UnpackError("struct.error")
    ELSE IF ~VersionOk(ByteOf(BufRead(b, 4, 1)[1])) THEN UnpackError("ValueError")
    ELSE IF Len(BufRead(b, 5, 4)) < 4 THEN UnpackError("struct.error")
    ELSE LET n == FromLE32(BufRead(b, 5, 4))
             hj == BufRead(b, 9, n)
         IN  IF Len(hj) < n THEN UnpackError("ValueError")
             ELSE LET h == from_json(hj)
                  IN  IF ~h.ok THEN UnpackError(h.exc)
                      ELSE [ok |-> TRUE, exc |-> "", header |-> h.header,
                            payload |-> BufRead(b, 9 + n, Len(b))]

\* the container is MAGIC, the version byte, the header length as four
\* little-endian bytes, the header JSON and the payload, and nothing else
Framed(b, h, c) ==
    /\ Len(b) = 9 + Len(to_json(h)) + Len(c)
    /\ SubSeq(b, 1, 4) = MAGIC
    /\ b[5] = B(VERSION)
    /\ FromLE32(SubSeq(b, 6, 9)) = Len(to_json(h))
    /\ SubSeq(b, 10, 9 + Len(to_json(h))) = to_json(h)
    /\ SubSeq(b, 10 + Len(to_json(h)), Len(b)) = c

\* the header of the container read is the one the create command wrote
HeaderIntact == Untampered \/ CiphertextAltered

\* C11: a container that pack built of a header h and a ciphertext c unpacks
\* to h and c, packs again to the same bytes and is 9 + len(header JSON) +
\* len(c) long, laid out as magic, version, length, header, payload; and the
\* restore command, reading a container whose header is the written one
\* (whatever bytes follow it), arrives at that header and those bytes
C11_FramingDeterministic ==
    /\ cmd.name = "compress" /\ pc = "c_write" =>
          LET u == unpack(blob)
          IN  /\ u.ok /\ u.header = header /\ u.payload = payload
              /\ pack(u.header, u.payload) = blob
              /\ Framed(blob, header, payload)
    /\ cmd.name = "decompress" /\ HeaderIntact /\ pc \in {"d_decrypt", "d_zstd", "d_write"} =>
          /\ unpack(blob) = [ok |-> TRUE, exc |-> "", header |-> header, payload |-> payload]
          /\ pack(header, payload) = blob
          /\ Framed(blob, header, payload)
          /\ to_json(header) = SubSeq(enc.blob, 10, enc.hend)

C11_Witness ==
    /\ cmd.name = "decompress" /\ pc = "d_decrypt"
    /\ CiphertextAltered
    /\ tamper.op.op = "append"
    /\ header.notes # None
    /\ unpack(blob).ok
    /\ Len(payload) > TAG_LEN

\* the steps of decode in the order of the code, from the container read
\* (Start) to the decompressed bytes (Decompressed)
DecodeOrder == <<"read", "magic", "version", "hlen", "hjson", "parse", "decrypt", "decompress">>
DecodePcs == {"d_magic", "d_version", "d_hlen", "d_hjson", "d_parse", "d_decrypt", "d_zstd"}

\* the state of decode at a position of the restore command: reading the
\* header length, the header bytes and the header are the three checks
\* between VersionChecked and HeaderParsed
DecodeState(p) ==
    CASE p = "d_magic" -> [state |-> "Start", done |-> 1, step |-> "magic", stage |-> "unpack"]
      [] p = "d_version" -> [state |-> "MagicChecked", done |-> 2, step |-> "version", stage |-> "unpack"]
      [] p = "d_hlen" -> [state |-> "VersionChecked", done |-> 3, step |-> "hlen", stage |-> "unpack"]
      [] p = "d_hjson" -> [state |-> "VersionChecked", done |-> 4, step |-> "hjson", stage |-> "unpack"]
      [] p = "d_parse" -> [state |-> "VersionChecked", done |-> 5, step |-> "parse", stage |-> "unpack"]
      [] p = "d_decrypt" -> [state |-> "HeaderParsed", done |-> 6, step |-> "decrypt", stage |-> "decrypt"]
      [] p = "d_zstd" -> [state |-> "Decrypted", done |-> 7, step |-> "decompress", stage |-> "decompress"]
      [] p = "d_write" -> [state |-> "Decompressed", done |-> 8, step |-> "write", stage |-> "write"]

NextPc(p) ==
    CASE p = "d_magic" -> "d_version"
      [] p = "d_version" -> "d_hlen"
      [] p = "d_hlen" -> "d_hjson"
      [] p = "d_hjson" -> "d_parse"
      [] p = "d_parse" -> "d_decrypt"
      [] p = "d_decrypt" -> "d_zstd"
      [] p = "d_zstd" -> "d_write"

\* the exceptions each check of decode raises
Raises(step) ==
    CASE step = "magic" -> {"ValueError"}
      [] step = "version" -> {"ValueError", "struct.error"}
      [] step = "hlen" -> {"struct.error"}
      [] step = "hjson" -> {"ValueError"}
      [] step = "parse" -> {"ValueError", "TypeError"}
      [] step = "decrypt" -> {"InvalidTag", "ValueError", "TypeError", "KeyError"}
      [] step = "decompress" -> {"ZstdError"}

DecodeDone == cmd.name = "decompress" /\ pc = "done" /\ Len(stages) >= 2
\* decode ended in the error state: the last step run is the check that failed
DecodeFailed == DecodeDone /\ stages[Len(stages)] # "write"
\* decode ended in Decompressed, and the command went on to write
DecodeSucceeded == DecodeDone /\ stages[Len(stages)] = "write"

\* one step of decode: on to the next state with no error, or to the error
\* state with the exception of the check just made
DecodeStepOK ==
    cmd.name = "decompress" /\ pc \in DecodePcs =>
        /\ stages' = Append(stages, DecodeState(pc).step)
        /\ \/ pc' = NextPc(pc) /\ result' = NoResult
           \/ /\ pc' = "done"
              /\ result'.kind \in {"ClickException", "Unhandled"}
              /\ result'.stage = DecodeState(pc).stage
              /\ result'.exc \in Raises(DecodeState(pc).step)

DecodeStateOK ==
    /\ cmd.name = "decompress" /\ pc \in DecodePcs \cup {"d_write"} =>
          /\ stages = SubSeq(DecodeOrder, 1, DecodeState(pc).done)
          /\ result = NoResult
          /\ ENABLED Next
    /\ DecodeFailed =>
          /\ stages = SubSeq(DecodeOrder, 1, Len(stages))
          /\ result.kind \in {"ClickException", "Unhandled"}
          /\ result.exc \in Raises(stages[Len(stages)])
          /\ result.stage = "unpack" => comp = <<>> /\ raw = <<>>
          /\ result.stage = "decrypt" => comp = <<>> /\ raw = <<>>
          /\ fs = fs0
    /\ DecodeSucceeded =>
          /\ stages = DecodeOrder \o <<"write">>
          /\ result.stage \in {"", "write"}

\* C12: decode goes through Start, MagicChecked, VersionChecked, HeaderParsed,
\* Decrypted, Decompressed in that order, one check per step, no state
\* skipped or entered twice; a check that fails ends decode in the error
\* state with the exception of that check, and no later stage runs (no
\* decrypt after a framing failure, no decompress after an authentication
\* failure); no state before the end is stuck, and decode ends either in
\* Decompressed or in the error state
C12_SinglePass == []DecodeStateOK /\ [][DecodeStepOK]_vars

C12_Witness ==
    /\ DecodeFailed
    /\ stages = SubSeq(DecodeOrder, 1, 7)
    /\ result = AuthFailure
    /\ comp = <<>> /\ raw = <<>>
    /\ Untampered /\ ~SamePassphrase

\* the container read and the container written are both well formed and
\* carry the same ciphertext, salt and nonce, but not the same header
SameSecretsOtherHeader ==
    /\ enc.made
    /\ LET u == unpack(blob)
           w == unpack(enc.blob)
       IN  /\ u.ok /\ w.ok
           /\ u.payload = w.payload
           /\ u.header.kdf.j = "obj" /\ u.header.cipher.j = "obj"
           /\ "salt_b64" \in DOMAIN u.header.kdf.o
           /\ "nonce_b64" \in DOMAIN u.header.cipher.o
           /\ u.header.kdf.o.salt_b64 = w.header.kdf.o.salt_b64
           /\ u.header.cipher.o.nonce_b64 = w.header.cipher.o.nonce_b64
           /\ u.header # w.header

\* C13: the header is not authenticated: restoring, with the passphrase of
\* creation, a container that has the ciphertext, salt and nonce of the
\* written one and another header (mime, orig_name, created, notes, comp,
\* the recorded kdf parameters or the cipher name and tag length changed)
\* succeeds with the original bytes, and without -o the bytes are written
\* to the path the changed header names
C13_HeaderUnauthenticated ==
    Restored /\ SameSecretsOtherHeader /\ SamePassphrase =>
        /\ stages = DecodeOrder \o <<"write">>
        /\ raw = enc.raw
        /\ header = unpack(blob).header
        /\ cmd.output = "" =>
              /\ result = Success("decompress")
              /\ fs[header.orig_name.s] = File(enc.raw)
        /\ cmd.output # "" /\ ~Unwritable(cmd.output) =>
              /\ result = Success("decompress")
              /\ fs[cmd.output] = File(enc.raw)

C13_Witness ==
    /\ Restored /\ SameSecretsOtherHeader /\ SamePassphrase
    /\ tamper.op = [op |-> "header", var |-> [v |-> "set", f |-> "orig_name", to |-> JStr("evil.txt")]]
    /\ cmd.output = ""
    /\ enc.raw # <<>>
    /\ enc.orig_name # "evil.txt"
    /\ ~fs0["evil.txt"].exists
    /\ fs["evil.txt"] = File(enc.raw)

\* the symbols that occur in the data
Distinct(data) == {data[i] : i \in 1..Len(data)}

\* C14 (as the claim states it): for every non-empty data, also of a single
\* distinct symbol, decoding the encoded data with the tree rebuilt from the
\* stored frequency map gives the data again, and the rebuilt tree has the
\* codes of the compressor's tree
C14_HuffmanRoundTrip ==
    huff.pc = "h_decoded" =>
        /\ huff.decoded = huff.data
        /\ huffman_decoding(huff.encoded_data, huff.huffman_tree) = huff.data
        /\ build_huffman_codes(huff.rebuilt) = huff.huffman_codes

\* what holds of C14: the round trip of data with two distinct symbols or
\* more, and the same codes from the rebuilt tree for every data
C14_TwoSymbolsRoundTrip ==
    huff.pc = "h_decoded" =>
        /\ Cardinality(Distinct(huff.data)) >= 2 =>
              /\ huff.decoded = huff.data
              /\ huffman_decoding(huff.encoded_data, huff.huffman_tree) = huff.data
        /\ huff.loaded = huff.freq_map
        /\ huff.rebuilt = huff.huffman_tree
        /\ build_huffman_codes(huff.rebuilt) = huff.huffman_codes
        /\ Cardinality(Distinct(huff.data)) = 1 =>
              /\ huff.huffman_codes = (huff.data[1] :> <<>>)
              /\ huff.encoded_data = <<>>
              /\ huff.decoded = <<>>

\* the failing case: data of one distinct symbol, coded with the empty code
C14_Witness ==
    /\ huff.pc = "h_decoded"
    /\ Len(huff.data) = 3
    /\ Cardinality(Distinct(huff.data)) = 1
    /\ IsLeaf(huff.rebuilt)
    /\ huff.encoded_data = <<>>
    /\ huff.decoded = <<>>

====
